---- MODULE Spec2Model ----
(***************************************************************************)
(* Model of the ocp_dnsnameresolver plugin (src/dnsnameresolver.go):       *)
(*   - the two DNS-name indices (regularDNSInfo, wildcardDNSInfo) and the  *)
(*     informer's Add / Delete / Update event handlers that maintain them; *)
(*   - the plugin's onStart / onShut callbacks.                            *)
(* DNS names are sequences of characters, so that the wildcard test is a   *)
(* test on the text.  An object name is a string; "" is the zero value a   *)
(* Go map lookup returns for a missing key.                                *)
(***************************************************************************)
EXTENDS Integers, Sequences, FiniteSets, TLC

\* ------------------------------------------------------------------ bounds
\* Number of non-empty object names the notifications draw from.
MaxObjNames == 1

\* Number of concurrent callers of onShut, and of onShut calls in a run.
MaxShutCallers == 3

MaxShutCalls == 4

\* onStart's timers, in milliseconds.
Timeout == 5000

LogDelay == 500

CheckSyncInterval == 100

ObjNamePool == <<"r1", "r2", "r3", "r4">>

\* Object names carried by notifications.  The handlers do not validate the
\* name, so the empty name is an input like any other.
ObjNames == {""} \cup {ObjNamePool[i] : i \in 1..MaxObjNames}

\* DNS names carried by notifications: a wildcard name, a regular name and a
\* name that starts with "*" but not with "*.".
DNSNames == {<<"*", ".", "a">>, <<"a">>, <<"*", "a">>}

\* The configured allow-set (resolver.namespaces) and the namespaces that
\* notifications may carry.
ConfiguredNamespaces == {"ns1", "ns2"}

AllNamespaces == ConfiguredNamespaces \cup {"other"}

\* ------------------------------------------------------------- payloads
\* A payload the type assertion accepts (*DNSNameResolver) or rejects.
ResolverObjs == [ok : {TRUE}, ns : AllNamespaces, dnsName : DNSNames, name : ObjNames]

NotResolver == [ok |-> FALSE, ns |-> "", dnsName |-> <<>>, name |-> ""]

Payloads == ResolverObjs \cup {NotResolver}

NoEvent == [kind |-> "None", obj |-> NotResolver, newOk |-> FALSE]

\* Add and Delete carry one object; Update carries the old object (the only one
\* the handler reads) and a new object of which only the type matters.
AddEvents == [kind : {"Add"}, obj : Payloads, newOk : {FALSE}]

DeleteEvents == [kind : {"Delete"}, obj : Payloads, newOk : {FALSE}]

UpdateEvents == [kind : {"Update"}, obj : Payloads, newOk : BOOLEAN]

\* ---------------------------------------------------------------- state
VARIABLES
    regularDNSInfo,     \* DNS name -> (namespace -> object name)
    wildcardDNSInfo,    \* DNS name -> (namespace -> object name)
    regularMapLock,     \* TRUE while the handler holds resolver.regularMapLock
    wildcardMapLock,    \* TRUE while the handler holds resolver.wildcardMapLock
    pc,                 \* position of the informer's delivery goroutine
    cur,                \* the notification being handled (or just handled)
    repeat,             \* TRUE iff cur is a redelivery of the previous notification
    sent,               \* number of times the handler reached send(...) for cur
    mutated,            \* TRUE iff some delivery of cur changed an index
    \* the plugin's lifecycle (initPlugin)
    stopCh,             \* "open" or "closed"
    stopLock,           \* 0 when free, else the onShut call holding it
    shutdown,           \* resolver.shutdown
    shutPc,             \* position of each onShut caller
    shutCalls,          \* number of onShut calls made so far
    shutResults,        \* results of the onShut calls, in the order they ran
    closes,             \* number of close(stopCh) executed
    startPc,            \* position of the onStart call
    startResult,        \* what onStart returned
    now,                \* milliseconds since onStart created its tickers
    returnedAt,         \* value of now when onStart returned
    hasSynced,          \* dnsNameResolverInformer.HasSynced()
    syncedAt,           \* value of now when hasSynced became true
    polledSynced,       \* TRUE iff a sync check of onStart saw hasSynced true
    checkSyncC,         \* a tick is pending on checkSyncTicker.C
    logC,               \* a tick is pending on logTicker.C
    timeoutC,           \* a tick is pending on timeoutTicker.C
    \* the source the informer watches
    live                \* the existing objects: (DNS name, namespace, object name)

idxVars == <<regularDNSInfo, wildcardDNSInfo>>

lockVars == <<regularMapLock, wildcardMapLock>>

handlerVars == <<regularDNSInfo, wildcardDNSInfo, regularMapLock, wildcardMapLock,
                 pc, cur, repeat, sent, mutated>>

shutVars == <<stopCh, stopLock, shutdown, shutPc, shutCalls, shutResults, closes>>

startVars == <<startPc, startResult, now, returnedAt, hasSynced, syncedAt, polledSynced,
               checkSyncC, logC, timeoutC>>

lifeVars == <<shutVars, startVars, live>>

vars == <<handlerVars, lifeVars>>

\* -------------------------------------------------------------- helpers
EmptyMap == [x \in {} |-> ""]

\* Go map read m[k]: the zero value "" when k is missing.
Lookup(m, k) == IF k \in DOMAIN m THEN m[k] ELSE ""

\* Go map write m[k] = v.
Put(m, k, v) == [x \in DOMAIN m \cup {k} |-> IF x = k THEN v ELSE m[x]]

\* Go delete(m, k).
Remove(m, k) == [x \in DOMAIN m \ {k} |-> m[x]]

\* strings.HasPrefix(dnsName, "*.").
isWildcard(dnsName) == Len(dnsName) >= 2 /\ dnsName[1] = "*" /\ dnsName[2] = "."

\* Membership in resolver.namespaces.
configuredNamespaceAny(ns) == TRUE

configuredNamespace(ns) == ns \in ConfiguredNamespaces

TypeOK ==
    /\ DOMAIN regularDNSInfo \subseteq DNSNames
    /\ DOMAIN wildcardDNSInfo \subseteq DNSNames
    /\ \A d \in DOMAIN regularDNSInfo :
          /\ DOMAIN regularDNSInfo[d] \subseteq AllNamespaces
          /\ \A n \in DOMAIN regularDNSInfo[d] : regularDNSInfo[d][n] \in ObjNames
    /\ \A d \in DOMAIN wildcardDNSInfo :
          /\ DOMAIN wildcardDNSInfo[d] \subseteq AllNamespaces
          /\ \A n \in DOMAIN wildcardDNSInfo[d] : wildcardDNSInfo[d][n] \in ObjNames
    /\ regularMapLock \in BOOLEAN /\ wildcardMapLock \in BOOLEAN
    /\ repeat \in BOOLEAN /\ mutated \in BOOLEAN
    /\ pc \in {"idle", "addW", "addR", "delW", "delW2", "delR", "delR2", "send", "returned"}
    /\ cur \in AddEvents \cup DeleteEvents \cup UpdateEvents \cup {NoEvent}
    /\ sent \in 0..1

ShutCallers == 1..MaxShutCallers

\* New(): both maps empty; initInformer registers the handlers; initPlugin
\* makes stopCh.  Nothing has been started or shut down.
Init ==
    /\ stopCh = "open"
    /\ stopLock = 0
    /\ shutdown = FALSE
    /\ shutPc = [c \in ShutCallers |-> "idle"]
    /\ shutCalls = 0
    /\ shutResults = <<>>
    /\ closes = 0
    /\ startPc = "notStarted"
    /\ startResult = "none"
    /\ now = 0
    /\ returnedAt = 0
    /\ hasSynced = FALSE
    /\ syncedAt = 0
    /\ polledSynced = FALSE
    /\ checkSyncC = FALSE
    /\ logC = FALSE
    /\ timeoutC = FALSE
    /\ regularDNSInfo = EmptyMap
    /\ wildcardDNSInfo = EmptyMap
    /\ regularMapLock = FALSE
    /\ wildcardMapLock = FALSE
    /\ pc = "idle"
    /\ cur = NoEvent
    /\ repeat = FALSE
    /\ sent = 0
    /\ mutated = FALSE
    /\ live = {}


\* ------------------------------------------------- the delivery goroutine
\* The informer hands the handlers one notification at a time.  A delivered
\* notification is either a new one (pc = "idle") or the one just handled,
\* delivered again (pc = "returned").
Deliverable(ev) == pc = "idle" \/ (pc = "returned" /\ ev = cur)

\* The informer moves on to a notification unrelated to the last one.
NextNotification ==
    /\ pc = "returned"
    /\ pc' = "idle"
    /\ cur' = NoEvent
    /\ repeat' = FALSE
    /\ sent' = 0
    /\ mutated' = FALSE
    /\ UNCHANGED <<idxVars, lockVars, lifeVars>>

\* Lines 85-94, 144-153, 204-213: the payload is not a *DNSNameResolver, or
\* its namespace is not configured: the handler returns at once.
DroppedTypeOnly(obj) == ~obj.ok

Dropped(obj) == ~obj.ok \/ ~configuredNamespace(obj.ns)

\* Lines 84-101 and 116-119 (AddFunc), 143-160 and 175-178 (DeleteFunc): type
\* assertion, namespace check, classification of the DNS name and acquisition
\* of the lock of the selected map.  pcW / pcR: where the handler continues.
Enter(ev, pcW, pcR) ==
    /\ Deliverable(ev)
    /\ cur' = ev
    /\ repeat' = (pc = "returned")
    /\ sent' = 0
    /\ mutated' = (pc = "returned" /\ mutated)
    /\ IF Dropped(ev.obj)
       THEN /\ pc' = "returned"
            /\ UNCHANGED lockVars
       ELSE IF isWildcard(ev.obj.dnsName)
            THEN /\ ~wildcardMapLock
                 /\ wildcardMapLock' = TRUE
                 /\ pc' = pcW
                 /\ UNCHANGED regularMapLock
            ELSE /\ ~regularMapLock
                 /\ regularMapLock' = TRUE
                 /\ pc' = pcR
                 /\ UNCHANGED wildcardMapLock
    /\ UNCHANGED <<idxVars, lifeVars>>

\* --------------------------------------------------------------- AddFunc
\* Line 106 / 124: the entry exists and its owner for the namespace differs
\* from the object's name (a missing namespace reads as "").
AddConflictNever(dnsInfo, obj) == FALSE

AddConflict(dnsInfo, obj) ==
    /\ obj.dnsName \in DOMAIN dnsInfo
    /\ Lookup(dnsInfo[obj.dnsName], obj.ns) # obj.name

\* Lines 110-114 / 128-132: the map after the write.
AddApplyToggle(dnsInfo, obj) ==
    IF obj.dnsName \in DOMAIN dnsInfo /\ obj.ns \in DOMAIN dnsInfo[obj.dnsName]
    THEN [dnsInfo EXCEPT ![obj.dnsName] = Remove(@, obj.ns)]
    ELSE Put(dnsInfo, obj.dnsName,
             Put(IF obj.dnsName \in DOMAIN dnsInfo THEN dnsInfo[obj.dnsName] ELSE EmptyMap,
                 obj.ns, obj.name))

AddApplyFresh(dnsInfo, obj) ==
    Put(dnsInfo, obj.dnsName, Put(EmptyMap, obj.ns, obj.name))

AddApply(dnsInfo, obj) ==
    LET dnsInfoMap == IF obj.dnsName \in DOMAIN dnsInfo THEN dnsInfo[obj.dnsName]
                      ELSE EmptyMap
    IN  Put(dnsInfo, obj.dnsName, Put(dnsInfoMap, obj.ns, obj.name))

AddFuncEnterSwapped ==
    \E ev \in AddEvents :
        /\ ev.kind = "Add"
        /\ Enter(ev, "addR", "addW")

\* Lines 83-101 and 116-119.
AddFuncEnter ==
    \E ev \in AddEvents :
        /\ ev.kind = "Add"
        /\ Enter(ev, "addW", "addR")

\* Lines 102-115: the wildcard critical section.
AddWildcard ==
    /\ pc = "addW"
    /\ IF AddConflict(wildcardDNSInfo, cur.obj)
       THEN /\ pc' = "returned"
            /\ UNCHANGED wildcardDNSInfo
       ELSE /\ wildcardDNSInfo' = AddApply(wildcardDNSInfo, cur.obj)
            /\ pc' = "send"
    /\ wildcardMapLock' = FALSE
    /\ mutated' = (mutated \/ wildcardDNSInfo' # wildcardDNSInfo)
    /\ UNCHANGED <<regularDNSInfo, regularMapLock, cur, repeat, sent, lifeVars>>

\* Lines 120-133: the regular critical section.
AddRegularKeepLock ==
    /\ pc = "addR"
    /\ IF AddConflict(regularDNSInfo, cur.obj)
       THEN /\ pc' = "returned"
            /\ UNCHANGED <<regularDNSInfo, regularMapLock>>
       ELSE /\ regularDNSInfo' = AddApply(regularDNSInfo, cur.obj)
            /\ pc' = "send"
            /\ regularMapLock' = FALSE
    /\ mutated' = (mutated \/ regularDNSInfo' # regularDNSInfo)
    /\ UNCHANGED <<wildcardDNSInfo, wildcardMapLock, cur, repeat, sent, lifeVars>>

AddRegular ==
    /\ pc = "addR"
    /\ IF AddConflict(regularDNSInfo, cur.obj)
       THEN /\ pc' = "returned"
            /\ UNCHANGED regularDNSInfo
       ELSE /\ regularDNSInfo' = AddApply(regularDNSInfo, cur.obj)
            /\ pc' = "send"
    /\ regularMapLock' = FALSE
    /\ mutated' = (mutated \/ regularDNSInfo' # regularDNSInfo)
    /\ UNCHANGED <<wildcardDNSInfo, wildcardMapLock, cur, repeat, sent, lifeVars>>

\* ------------------------------------------------------------ DeleteFunc
\* Lines 161+165 / 179+183: the entry exists and its owner for the namespace
\* equals the object's name (a missing namespace reads as "").
DeleteMatchesAnyOwner(dnsInfo, obj) == obj.dnsName \in DOMAIN dnsInfo

DeleteMatches(dnsInfo, obj) ==
    /\ obj.dnsName \in DOMAIN dnsInfo
    /\ Lookup(dnsInfo[obj.dnsName], obj.ns) = obj.name

\* Line 166 / 184: delete(dnsInfoMap, namespace).  dnsInfoMap is the map stored
\* in the index, so the index shows the removal at once.
DeleteInnerByName(dnsInfo, obj) ==
    LET m == dnsInfo[obj.dnsName]
        owned == {n \in DOMAIN m : m[n] = obj.name}
    IN  IF owned = {} THEN dnsInfo
        ELSE [dnsInfo EXCEPT ![obj.dnsName] = Remove(@, CHOOSE n \in owned : TRUE)]

DeleteInner(dnsInfo, obj) ==
    [dnsInfo EXCEPT ![obj.dnsName] = Remove(@, obj.ns)]

\* Lines 167-171 / 185-189: keep the entry, or drop the key when it is empty.
DeleteOuterKeep(dnsInfo, obj) ==
    [dnsInfo EXCEPT ![obj.dnsName] = dnsInfo[obj.dnsName]]

DeleteOuter(dnsInfo, obj) ==
    IF Cardinality(DOMAIN dnsInfo[obj.dnsName]) > 0
    THEN [dnsInfo EXCEPT ![obj.dnsName] = dnsInfo[obj.dnsName]]
    ELSE Remove(dnsInfo, obj.dnsName)

\* Lines 142-160 and 175-178.
DeleteFuncEnter ==
    \E ev \in DeleteEvents :
        /\ ev.kind = "Delete"
        /\ Enter(ev, "delW", "delR")

\* Lines 161-166 and 174: the owner check and the removal of the namespace.
DeleteWildcard ==
    /\ pc = "delW"
    /\ IF DeleteMatches(wildcardDNSInfo, cur.obj)
       THEN /\ wildcardDNSInfo' = DeleteInner(wildcardDNSInfo, cur.obj)
            /\ pc' = "delW2"
            /\ UNCHANGED wildcardMapLock
       ELSE /\ wildcardMapLock' = FALSE
            /\ pc' = "send"
            /\ UNCHANGED wildcardDNSInfo
    /\ mutated' = (mutated \/ wildcardDNSInfo' # wildcardDNSInfo)
    /\ UNCHANGED <<regularDNSInfo, regularMapLock, cur, repeat, sent, lifeVars>>

\* Lines 167-174.
DeleteWildcardKey ==
    /\ pc = "delW2"
    /\ wildcardDNSInfo' = DeleteOuter(wildcardDNSInfo, cur.obj)
    /\ wildcardMapLock' = FALSE
    /\ pc' = "send"
    /\ mutated' = (mutated \/ wildcardDNSInfo' # wildcardDNSInfo)
    /\ UNCHANGED <<regularDNSInfo, regularMapLock, cur, repeat, sent, lifeVars>>

\* Lines 179-184 and 192.
DeleteRegular ==
    /\ pc = "delR"
    /\ IF DeleteMatches(regularDNSInfo, cur.obj)
       THEN /\ regularDNSInfo' = DeleteInner(regularDNSInfo, cur.obj)
            /\ pc' = "delR2"
            /\ UNCHANGED regularMapLock
       ELSE /\ regularMapLock' = FALSE
            /\ pc' = "send"
            /\ UNCHANGED regularDNSInfo
    /\ mutated' = (mutated \/ regularDNSInfo' # regularDNSInfo)
    /\ UNCHANGED <<wildcardDNSInfo, wildcardMapLock, cur, repeat, sent, lifeVars>>

\* Lines 185-192.
DeleteRegularKey ==
    /\ pc = "delR2"
    /\ regularDNSInfo' = DeleteOuter(regularDNSInfo, cur.obj)
    /\ regularMapLock' = FALSE
    /\ pc' = "send"
    /\ mutated' = (mutated \/ regularDNSInfo' # regularDNSInfo)
    /\ UNCHANGED <<wildcardDNSInfo, wildcardMapLock, cur, repeat, sent, lifeVars>>

\* ------------------------------------------------------------ UpdateFunc
\* Lines 202-214: the old object is asserted and filtered; no map is touched.
UpdateFuncEnterAsAdd ==
    \E ev \in UpdateEvents :
        /\ ev.kind = "Update"
        /\ Enter(ev, "addW", "addR")

UpdateFuncEnter ==
    \E ev \in UpdateEvents :
        /\ Deliverable(ev)
        /\ cur' = ev
        /\ repeat' = (pc = "returned")
        /\ sent' = 0
        /\ mutated' = (pc = "returned" /\ mutated)
        /\ pc' = IF Dropped(ev.obj) THEN "returned" ELSE "send"
        /\ UNCHANGED <<idxVars, lockVars, lifeVars>>

\* Lines 136-139, 195-198, 215-218: the handler reaches the observer call
\* (made when send is not nil), then returns.
Send ==
    /\ pc = "send"
    /\ sent' = sent + 1
    /\ pc' = "returned"
    /\ UNCHANGED <<idxVars, lockVars, cur, repeat, mutated, lifeVars>>

HandlerNext ==
    \/ AddFuncEnter
    \/ AddWildcard
    \/ AddRegular
    \/ DeleteFuncEnter
    \/ DeleteWildcard
    \/ DeleteWildcardKey
    \/ DeleteRegular
    \/ DeleteRegularKey
    \/ UpdateFuncEnter
    \/ Send
    \/ NextNotification

Spec == Init /\ [][HandlerNext]_vars

\* ------------------------------------------------- the informer's source
\* Lines 83-134 run as one step: the indices after AddFunc has handled obj.
AddFuncResult(idx, obj) ==
    IF Dropped(obj) THEN idx
    ELSE IF isWildcard(obj.dnsName)
         THEN IF AddConflict(idx[2], obj) THEN idx
              ELSE <<idx[1], AddApply(idx[2], obj)>>
         ELSE IF AddConflict(idx[1], obj) THEN idx
              ELSE <<AddApply(idx[1], obj), idx[2]>>

\* Lines 142-193 run as one step: the indices after DeleteFunc has handled obj.
DeleteFuncResult(idx, obj) ==
    IF Dropped(obj) THEN idx
    ELSE IF isWildcard(obj.dnsName)
         THEN IF DeleteMatches(idx[2], obj)
              THEN <<idx[1], DeleteOuter(DeleteInner(idx[2], obj), obj)>>
              ELSE idx
         ELSE IF DeleteMatches(idx[1], obj)
              THEN <<DeleteOuter(DeleteInner(idx[1], obj), obj), idx[2]>>
              ELSE idx

\* The objects of the source have non-empty names.
SourceObjNames == ObjNames \ {""}

\* An object is created in the source; the informer delivers its Add at once
\* and AddFunc handles it.  An object is named by (namespace, name), and no
\* two existing objects of a namespace have the same DNS name.
SourceCreate ==
    \E d \in DNSNames, ns \in AllNamespaces, name \in SourceObjNames :
        /\ pc = "idle"
        /\ \A t \in live : t[2] = ns => (t[3] # name /\ t[1] # d)
        /\ live' = live \cup {<<d, ns, name>>}
        /\ LET idx == AddFuncResult(idxVars,
                                    [ok |-> TRUE, ns |-> ns, dnsName |-> d, name |-> name])
           IN  /\ regularDNSInfo' = idx[1]
               /\ wildcardDNSInfo' = idx[2]
        /\ UNCHANGED <<lockVars, pc, cur, repeat, sent, mutated, shutVars, startVars>>

\* An existing object is deleted; the informer delivers its Delete at once
\* and DeleteFunc handles it.
SourceDelete ==
    \E t \in live :
        /\ pc = "idle"
        /\ live' = live \ {t}
        /\ LET idx == DeleteFuncResult(idxVars,
                                       [ok |-> TRUE, ns |-> t[2], dnsName |-> t[1], name |-> t[3]])
           IN  /\ regularDNSInfo' = idx[1]
               /\ wildcardDNSInfo' = idx[2]
        /\ UNCHANGED <<lockVars, pc, cur, repeat, sent, mutated, shutVars, startVars>>

SourceNext ==
    \/ SourceCreate
    \/ SourceDelete

SourceSpec == Init /\ [][SourceNext]_vars

\* ---------------------------------------------------------------- onShut
\* A caller invokes onShut (line 273) and waits for stopLock.
ShutCall(c) ==
    /\ shutPc[c] = "idle"
    /\ shutCalls < MaxShutCalls
    /\ shutCalls' = shutCalls + 1
    /\ shutPc' = [shutPc EXCEPT ![c] = "lock"]
    /\ UNCHANGED <<stopCh, stopLock, shutdown, shutResults, closes, startVars, handlerVars, live>>

\* Line 274: resolver.stopLock.Lock().
ShutLockNoWait(c) ==
    /\ shutPc[c] = "lock"
    /\ stopLock' = c
    /\ shutPc' = [shutPc EXCEPT ![c] = "check"]
    /\ UNCHANGED <<stopCh, shutdown, shutCalls, shutResults, closes, startVars, handlerVars, live>>

ShutLock(c) ==
    /\ shutPc[c] = "lock"
    /\ stopLock = 0
    /\ stopLock' = c
    /\ shutPc' = [shutPc EXCEPT ![c] = "check"]
    /\ UNCHANGED <<stopCh, shutdown, shutCalls, shutResults, closes, startVars, handlerVars, live>>

\* Line 278: if !resolver.shutdown; line 285 otherwise.
ShutCheckBlind(c) ==
    /\ shutPc[c] = "check"
    /\ shutPc' = [shutPc EXCEPT ![c] = "close"]
    /\ UNCHANGED <<stopCh, stopLock, shutdown, shutCalls, shutResults, closes, startVars,
                   handlerVars, live>>

ShutCheck(c) ==
    /\ shutPc[c] = "check"
    /\ shutPc' = [shutPc EXCEPT ![c] = IF ~shutdown THEN "close" ELSE "retErr"]
    /\ UNCHANGED <<stopCh, stopLock, shutdown, shutCalls, shutResults, closes, startVars,
                   handlerVars, live>>

\* Line 279: close(resolver.stopCh).  closes counts the executions; a second
\* one would be a close of a closed channel.
ShutClose(c) ==
    /\ shutPc[c] = "close"
    /\ stopCh' = "closed"
    /\ closes' = closes + 1
    /\ shutPc' = [shutPc EXCEPT ![c] = "setFlag"]
    /\ UNCHANGED <<stopLock, shutdown, shutCalls, shutResults, startVars, handlerVars, live>>

\* Lines 280-282: resolver.shutdown = true; return nil.
ShutSetFlag(c) ==
    /\ shutPc[c] = "setFlag"
    /\ shutdown' = TRUE
    /\ shutPc' = [shutPc EXCEPT ![c] = "retNil"]
    /\ UNCHANGED <<stopCh, stopLock, shutCalls, shutResults, closes, startVars, handlerVars, live>>

\* Line 275: the deferred Unlock, and the return of the result.
ShutReturn(c) ==
    /\ shutPc[c] \in {"retNil", "retErr"}
    /\ stopLock' = 0
    /\ shutResults' = Append(shutResults, IF shutPc[c] = "retNil" THEN "nil" ELSE "err")
    /\ shutPc' = [shutPc EXCEPT ![c] = "idle"]
    /\ UNCHANGED <<stopCh, shutdown, shutCalls, closes, startVars, handlerVars, live>>

ShutNext ==
    \E c \in ShutCallers :
        \/ ShutCall(c)
        \/ ShutLock(c)
        \/ ShutCheck(c)
        \/ ShutClose(c)
        \/ ShutSetFlag(c)
        \/ ShutReturn(c)

ShutSpec == Init /\ [][ShutNext]_vars
\* --------------------------------------------------------------- onStart
\* Lines 245-257: the informer is started in its own goroutine and the three
\* tickers are created; the caller enters the select loop.
StartCallRemake ==
    /\ startPc = "notStarted"
    /\ startPc' = "select"
    /\ now' = 0
    /\ stopCh' = "open"
    /\ UNCHANGED <<startResult, returnedAt, hasSynced, syncedAt, polledSynced,
                   checkSyncC, logC, timeoutC, stopLock, shutdown, shutPc, shutCalls,
                   shutResults, closes, handlerVars, live>>

StartCall ==
    /\ startPc = "notStarted"
    /\ startPc' = "select"
    /\ now' = 0
    /\ UNCHANGED <<startResult, returnedAt, hasSynced, syncedAt, polledSynced,
                   checkSyncC, logC, timeoutC, shutVars, handlerVars, live>>

\* The running informer completes its initial list: HasSynced() turns true,
\* at any moment, or never.
InformerSync ==
    /\ startPc # "notStarted"
    /\ stopCh = "open"
    /\ ~hasSynced
    /\ hasSynced' = TRUE
    /\ syncedAt' = now
    /\ UNCHANGED <<startPc, startResult, now, returnedAt, polledSynced,
                   checkSyncC, logC, timeoutC, shutVars, handlerVars, live>>

\* Time passes while onStart is blocked in the select with no case ready (a
\* ready case is taken before the clock moves on).  Each ticker delivers a
\* tick on its channel at the multiples of its period.
Tick ==
    /\ startPc = "select"
    /\ ~checkSyncC /\ ~logC /\ ~timeoutC
    /\ now < Timeout
    /\ now' = now + CheckSyncInterval \div 2
    /\ checkSyncC' = (now' % CheckSyncInterval = 0)
    /\ logC' = (now' % LogDelay = 0)
    /\ timeoutC' = (now' % Timeout = 0)
    /\ UNCHANGED <<startPc, startResult, returnedAt, hasSynced, syncedAt, polledSynced,
                   shutVars, handlerVars, live>>

\* Lines 260-263: case <-checkSyncTicker.C.
SelectCheckSyncNoTest ==
    /\ startPc = "select"
    /\ checkSyncC
    /\ checkSyncC' = FALSE
    /\ startPc' = "returned"
    /\ startResult' = "nil"
    /\ returnedAt' = now
    /\ polledSynced' = hasSynced
    /\ UNCHANGED <<now, hasSynced, syncedAt, logC, timeoutC, shutVars, handlerVars, live>>

SelectCheckSync ==
    /\ startPc = "select"
    /\ checkSyncC
    /\ checkSyncC' = FALSE
    /\ IF hasSynced
       THEN /\ startPc' = "returned"
            /\ startResult' = "nil"
            /\ returnedAt' = now
            /\ polledSynced' = TRUE
       ELSE UNCHANGED <<startPc, startResult, returnedAt, polledSynced>>
    /\ UNCHANGED <<now, hasSynced, syncedAt, logC, timeoutC, shutVars, handlerVars, live>>

\* Lines 264-265: case <-logTicker.C.
SelectLog ==
    /\ startPc = "select"
    /\ logC
    /\ logC' = FALSE
    /\ UNCHANGED <<startPc, startResult, now, returnedAt, hasSynced, syncedAt, polledSynced,
                   checkSyncC, timeoutC, shutVars, handlerVars, live>>

\* Lines 266-268: case <-timeoutTicker.C.
SelectTimeoutError ==
    /\ startPc = "select"
    /\ timeoutC
    /\ timeoutC' = FALSE
    /\ startPc' = "returned"
    /\ startResult' = "error"
    /\ returnedAt' = now
    /\ UNCHANGED <<now, hasSynced, syncedAt, polledSynced, checkSyncC, logC,
                   shutVars, handlerVars, live>>

SelectTimeout ==
    /\ startPc = "select"
    /\ timeoutC
    /\ timeoutC' = FALSE
    /\ startPc' = "returned"
    /\ startResult' = "nil"
    /\ returnedAt' = now
    /\ UNCHANGED <<now, hasSynced, syncedAt, polledSynced, checkSyncC, logC,
                   shutVars, handlerVars, live>>

StartNext ==
    \/ StartCall
    \/ InformerSync
    \/ Tick
    \/ SelectCheckSync
    \/ SelectLog
    \/ SelectTimeout

StartSpec == Init /\ [][StartNext]_vars

\* Time passes, and a goroutine blocked in a select with a ready case runs.
StartFairSpec ==
    /\ StartSpec
    /\ WF_vars(Tick)
    /\ WF_vars(SelectCheckSync)
    /\ WF_vars(SelectLog)
    /\ WF_vars(SelectTimeout)

\* ------------------------------------------------------------ the plugin
\* onStart, concurrent onShut calls and the informer's notifications together.
\* Lines 246-248: the informer runs, and delivers notifications, once onStart
\* has started it.
InformerStarted == startPc # "notStarted"

\* The objects of the source in the runs of the whole plugin: one regular
\* name, in a configured namespace or not.
LifeObjects == {<<"a">>} \X {"ns1", "other"} \X {ObjNamePool[1]}

\* The started informer delivers the Add of an object, the only one existing.
LifeCreate ==
    /\ InformerStarted
    /\ live = {}
    /\ SourceCreate
    /\ live' \subseteq LifeObjects

LifeNext ==
    \/ StartNext
    \/ ShutNext
    \/ LifeCreate
    \/ SourceDelete

LifeSpec == Init /\ [][LifeNext]_vars

\* ================================================================ claims
\* The owner of (dnsName, ns) in an index: <<name>>, or <<>> when there is none.
Owner(dnsInfo, d, n) ==
    IF d \in DOMAIN dnsInfo /\ n \in DOMAIN dnsInfo[d] THEN <<dnsInfo[d][n]>> ELSE <<>>

\* The registrations (dnsName, ns, name) an index holds.
Regs(dnsInfo) ==
    {t \in DNSNames \X AllNamespaces \X ObjNames : Owner(dnsInfo, t[1], t[2]) = <<t[3]>>}

\* The text begins with the two characters "*.".
StartsWithStarDot(d) == Len(d) > 1 /\ SubSeq(d, 1, 2) = <<"*", ".">>

InScope(ev) == ev.obj.ok /\ ev.obj.ns \in ConfiguredNamespaces

CurOwner(dnsInfo) == Owner(dnsInfo, cur.obj.dnsName, cur.obj.ns)

\* C1: an in-scope Add for a (name, namespace) owned by a different object
\* changes neither index, and in no step is the owner of a (name, namespace)
\* pair replaced by a different object: it goes from absent to an object or
\* from an object to absent.
C1_ConflictRejection ==
    [][ /\ (pc = "addW" /\ CurOwner(wildcardDNSInfo) \notin {<<>>, <<cur.obj.name>>})
            => UNCHANGED idxVars
        /\ (pc = "addR" /\ CurOwner(regularDNSInfo) \notin {<<>>, <<cur.obj.name>>})
            => UNCHANGED idxVars
        /\ \A d \in DNSNames, n \in AllNamespaces :
              /\ Owner(regularDNSInfo', d, n) # Owner(regularDNSInfo, d, n)
                    => <<>> \in {Owner(regularDNSInfo, d, n), Owner(regularDNSInfo', d, n)}
              /\ Owner(wildcardDNSInfo', d, n) # Owner(wildcardDNSInfo, d, n)
                    => <<>> \in {Owner(wildcardDNSInfo, d, n), Owner(wildcardDNSInfo', d, n)}
      ]_vars

\* C1 witness: a conflicting in-scope Add has been handled and the other
\* object is still the owner.
C1_Witness ==
    /\ pc = "returned" /\ cur.kind = "Add" /\ InScope(cur) /\ ~repeat
    /\ \/ CurOwner(regularDNSInfo) \notin {<<>>, <<cur.obj.name>>}
       \/ CurOwner(wildcardDNSInfo) \notin {<<>>, <<cur.obj.name>>}

\* C2: an in-scope Add for a name whose entry exists but has no owner for the
\* Add's namespace sets namespace -> name in that entry and keeps the other
\* namespaces' owners.
C2_UpsertNewNamespace ==
    [][ /\ (pc = "addW" /\ cur.obj.dnsName \in DOMAIN wildcardDNSInfo
                        /\ CurOwner(wildcardDNSInfo) = <<>>)
            => wildcardDNSInfo' =
                 [wildcardDNSInfo EXCEPT ![cur.obj.dnsName] = Put(@, cur.obj.ns, cur.obj.name)]
        /\ (pc = "addR" /\ cur.obj.dnsName \in DOMAIN regularDNSInfo
                        /\ CurOwner(regularDNSInfo) = <<>>)
            => regularDNSInfo' =
                 [regularDNSInfo EXCEPT ![cur.obj.dnsName] = Put(@, cur.obj.ns, cur.obj.name)]
      ]_vars

\* C3: an in-scope Delete removes the (name, namespace) registration exactly
\* when its owner is the Delete's object; otherwise both indices stay as they
\* are, through the whole handler.
C3_OwnerMatchedRemoval ==
    [][ /\ (pc = "delW" =>
              IF CurOwner(wildcardDNSInfo) = <<cur.obj.name>>
              THEN /\ Regs(wildcardDNSInfo') = Regs(wildcardDNSInfo) \
                          {<<cur.obj.dnsName, cur.obj.ns, cur.obj.name>>}
                   /\ UNCHANGED regularDNSInfo
              ELSE UNCHANGED idxVars)
        /\ (pc = "delR" =>
              IF CurOwner(regularDNSInfo) = <<cur.obj.name>>
              THEN /\ Regs(regularDNSInfo') = Regs(regularDNSInfo) \
                          {<<cur.obj.dnsName, cur.obj.ns, cur.obj.name>>}
                   /\ UNCHANGED wildcardDNSInfo
              ELSE UNCHANGED idxVars)
        /\ (pc \in {"delW2", "delR2"} =>
              /\ Regs(wildcardDNSInfo') = Regs(wildcardDNSInfo)
              /\ Regs(regularDNSInfo') = Regs(regularDNSInfo)
              /\ (~mutated => UNCHANGED idxVars))
      ]_vars

\* C3 witness: a Delete by an object that is not the owner has been handled
\* and the owner's registration is still there.
C3_Witness ==
    /\ pc = "returned" /\ cur.kind = "Delete" /\ InScope(cur) /\ sent = 1 /\ ~mutated
    /\ \/ CurOwner(regularDNSInfo) \notin {<<>>, <<cur.obj.name>>}
       \/ CurOwner(wildcardDNSInfo) \notin {<<>>, <<cur.obj.name>>}

\* C4: outside the critical section of a map, every key of that map has at
\* least one namespace; a Delete that empties an entry removes its key.
C4_NoEmptyEntries ==
    /\ [](/\ (~regularMapLock =>
                \A d \in DOMAIN regularDNSInfo : DOMAIN regularDNSInfo[d] # {})
          /\ (~wildcardMapLock =>
                \A d \in DOMAIN wildcardDNSInfo : DOMAIN wildcardDNSInfo[d] # {}))
    /\ [][ /\ ((pc = "delR2" /\ DOMAIN regularDNSInfo[cur.obj.dnsName] = {})
                  => cur.obj.dnsName \notin DOMAIN regularDNSInfo')
           /\ ((pc = "delW2" /\ DOMAIN wildcardDNSInfo[cur.obj.dnsName] = {})
                  => cur.obj.dnsName \notin DOMAIN wildcardDNSInfo')
         ]_vars

\* C4 witness: a Delete removed the last owner of its name and the name is a
\* key of neither index.
C4_Witness ==
    /\ pc = "returned" /\ cur.kind = "Delete" /\ mutated /\ ~repeat
    /\ cur.obj.dnsName \notin DOMAIN regularDNSInfo \cup DOMAIN wildcardDNSInfo

\* C5: a notification of any kind whose namespace is not configured leaves
\* both indices as they are: the handler returns at the namespace check, and
\* no handler is ever past that check with such a notification.
C5_NamespaceFiltering ==
    /\ [](pc \notin {"idle", "returned"} => InScope(cur))
    /\ [][ (pc \in {"idle", "returned"} /\ cur'.obj.ok
                /\ cur'.obj.ns \notin ConfiguredNamespaces)
            => (pc' = "returned" /\ UNCHANGED <<idxVars, lockVars>>) ]_vars

\* C5 witness: a Delete from a namespace that is not configured, carrying the
\* name and the object of an existing registration, has been handled.
C5_Witness ==
    /\ pc = "returned" /\ cur.kind = "Delete" /\ cur.obj.ok
    /\ cur.obj.ns \notin ConfiguredNamespaces
    /\ \E n \in ConfiguredNamespaces :
          \/ Owner(regularDNSInfo, cur.obj.dnsName, n) = <<cur.obj.name>>
          \/ Owner(wildcardDNSInfo, cur.obj.dnsName, n) = <<cur.obj.name>>

\* C6: every key of the wildcard index begins with "*." and no key of the
\* regular index does, so no name is a key of both.
C6_PartitionExclusivity ==
    /\ \A d \in DOMAIN wildcardDNSInfo : StartsWithStarDot(d)
    /\ \A d \in DOMAIN regularDNSInfo : ~StartsWithStarDot(d)
    /\ DOMAIN wildcardDNSInfo \cap DOMAIN regularDNSInfo = {}

\* C6 witness: both indices are populated, the regular one with a name that
\* begins with "*" but not with "*.".
C6_Witness ==
    /\ DOMAIN wildcardDNSInfo # {}
    /\ \E d \in DOMAIN regularDNSInfo : d[1] = "*"

\* C7: handling an Add again, right after handling it, changes neither index.
C7_AddIdempotence ==
    [][ (repeat /\ cur.kind = "Add") => UNCHANGED idxVars ]_vars

\* C7 witness: an Add that registered its object has been handled a second
\* time and was accepted again.
C7_Witness ==
    /\ pc = "returned" /\ repeat /\ cur.kind = "Add" /\ mutated /\ sent = 1

\* C8: handling a Delete again, right after handling it, changes neither index.
C8_DeleteIdempotence ==
    [][ (repeat /\ cur.kind = "Delete") => UNCHANGED idxVars ]_vars

\* C8 witness: a Delete that removed a registration has been handled a second
\* time.
C8_Witness ==
    /\ pc = "returned" /\ repeat /\ cur.kind = "Delete" /\ mutated /\ sent = 1

\* C9: the first onShut call returns nil and closes stopCh, every later call
\* returns the error, and stopCh is closed exactly once if a call was made.
C9_ShutdownIdempotence ==
    /\ closes <= 1
    /\ \A i \in 1..Len(shutResults) : shutResults[i] = IF i = 1 THEN "nil" ELSE "err"
    /\ (Len(shutResults) >= 1 => (closes = 1 /\ stopCh = "closed" /\ shutdown))

\* C9 witness: three calls have returned.
C9_Witness == Len(shutResults) = 3 /\ closes = 1

\* C10: onStart returns, whatever the informer does; it returns nil, not
\* after the 5 s deadline, and at the deadline when HasSynced never was true.
C10_BoundedFailOpenStart ==
    /\ [](startPc = "returned" =>
            /\ startResult = "nil"
            /\ returnedAt <= Timeout
            /\ (~hasSynced => returnedAt = Timeout))
    /\ (startPc = "select") ~> (startPc = "returned")

\* C10 witness: onStart has returned although the informer never synced.
C10_Witness == startPc = "returned" /\ ~hasSynced /\ returnedAt = Timeout

\* The first multiple of the poll interval at or after t.
PollAtOrAfter(t) ==
    ((t + CheckSyncInterval - 1) \div CheckSyncInterval) * CheckSyncInterval

\* C11: onStart returns before the deadline only from a poll that saw
\* HasSynced() true; every poll handled once HasSynced() is true returns, so
\* the return is at the first poll tick at or after the sync (the tick after
\* it when the sync came at a tick's instant but after that tick's poll); a
\* sync at 50 ms gives a return at 100 ms.
C11_EarlyReturnOnSync ==
    /\ [](startPc = "returned" =>
            /\ (returnedAt < Timeout =>
                    polledSynced /\ returnedAt % CheckSyncInterval = 0)
            /\ (polledSynced =>
                    /\ hasSynced
                    /\ returnedAt \in {PollAtOrAfter(syncedAt), PollAtOrAfter(syncedAt + 1)}
                    /\ (syncedAt % CheckSyncInterval # 0
                            => returnedAt = PollAtOrAfter(syncedAt))))
    /\ [][ (startPc = "select" /\ hasSynced /\ checkSyncC /\ ~checkSyncC')
            => (startPc' = "returned" /\ returnedAt' = now) ]_vars

\* C11 witness: HasSynced() turned true at 50 ms and onStart returned from
\* the poll at 100 ms.
C11_Witness ==
    /\ startPc = "returned" /\ polledSynced
    /\ syncedAt = CheckSyncInterval \div 2
    /\ returnedAt = CheckSyncInterval

\* C12: no step of the handling of an Update changes either index.
C12_UpdateDoesNotMutate ==
    [][ (\/ (pc \in {"idle", "returned"} /\ cur'.kind = "Update")
         \/ (pc \notin {"idle", "returned"} /\ cur.kind = "Update"))
        => UNCHANGED idxVars ]_vars

\* C12 witness: an in-scope Update for an object that has no registration has
\* been handled while the indices hold other registrations.
C12_Witness ==
    /\ pc = "returned" /\ cur.kind = "Update" /\ InScope(cur) /\ sent = 1
    /\ CurOwner(regularDNSInfo) = <<>> /\ CurOwner(wildcardDNSInfo) = <<>>
    /\ DOMAIN regularDNSInfo # {} /\ DOMAIN wildcardDNSInfo # {}

\* The positions of onShut between Lock and the deferred Unlock.
InShutCritical == {"check", "close", "setFlag", "retNil", "retErr"}

\* C13: with onShut calls running concurrently, at most one is between Lock
\* and Unlock, close(stopCh) is only ever reached with stopCh open and the
\* flag unset, at most one call returns nil, and once a call has returned
\* exactly one has returned nil.
C13_AtomicShutdownGuard ==
    /\ Cardinality({c \in ShutCallers : shutPc[c] \in InShutCritical}) <= 1
    /\ \A c \in ShutCallers :
          /\ shutPc[c] \in InShutCritical => stopLock = c
          /\ shutPc[c] = "close" => (stopCh = "open" /\ ~shutdown /\ closes = 0)
    /\ Cardinality({i \in 1..Len(shutResults) : shutResults[i] = "nil"})
          = IF Len(shutResults) = 0 THEN 0 ELSE 1
    /\ Cardinality({i \in 1..Len(shutResults) : shutResults[i] = "nil"})
          + Cardinality({c \in ShutCallers : shutPc[c] \in {"close", "setFlag", "retNil"}})
          <= 1

\* C13 witness: after the successful call, one caller is about to return the
\* error while two others wait for the lock.
C13_Witness ==
    /\ shutResults = <<"nil">>
    /\ \E c \in ShutCallers :
          /\ shutPc[c] = "retErr"
          /\ Cardinality({d \in ShutCallers : shutPc[d] = "lock"}) = 2

\* C14: every well-formed in-scope notification, of any kind and whether or
\* not it changed an index, has reached the observer call exactly once when
\* its handler returns, and the call is made with no map lock held.
C14_ObserverOnEveryEvent ==
    /\ (pc = "returned" /\ InScope(cur)) => sent = 1
    /\ pc = "send" => (~regularMapLock /\ ~wildcardMapLock /\ sent = 0)
    /\ sent <= 1

\* The entry of a DNS name in an index: <<entry>>, or <<>> when it is not a key.
Entry(dnsInfo, d) == IF d \in DOMAIN dnsInfo THEN <<dnsInfo[d]>> ELSE <<>>

\* Every cell of the index other than (d0, n0) is as it was.
OtherCellsUnchanged(dnsInfo, dnsInfoNext, d0, n0) ==
    /\ \A d \in DNSNames \ {d0} : Entry(dnsInfoNext, d) = Entry(dnsInfo, d)
    /\ \A n \in AllNamespaces \ {n0} : Owner(dnsInfoNext, d0, n) = Owner(dnsInfo, d0, n)

\* C15: every step of the handling of a notification leaves unchanged the
\* index its name does not select, every other name's entry in the selected
\* index and every other namespace's owner under its name; the steps that
\* take a notification in change nothing.
C15_SingleCellEffect ==
    [][ IF pc \in {"idle", "returned", "send"}
        THEN UNCHANGED idxVars
        ELSE IF isWildcard(cur.obj.dnsName)
             THEN /\ UNCHANGED regularDNSInfo
                  /\ OtherCellsUnchanged(wildcardDNSInfo, wildcardDNSInfo',
                                         cur.obj.dnsName, cur.obj.ns)
             ELSE /\ UNCHANGED wildcardDNSInfo
                  /\ OtherCellsUnchanged(regularDNSInfo, regularDNSInfo',
                                         cur.obj.dnsName, cur.obj.ns)
      ]_vars

\* C15 witness: an Add registered its object under a name that another
\* namespace also owns, while the other index holds registrations too.
C15_Witness ==
    /\ pc = "returned" /\ cur.kind = "Add" /\ mutated /\ ~repeat /\ sent = 1
    /\ \E n \in AllNamespaces \ {cur.obj.ns} :
          \/ (/\ Owner(regularDNSInfo, cur.obj.dnsName, n) # <<>>
              /\ CurOwner(regularDNSInfo) # <<>>
              /\ DOMAIN wildcardDNSInfo # {})
          \/ (/\ Owner(wildcardDNSInfo, cur.obj.dnsName, n) # <<>>
              /\ CurOwner(wildcardDNSInfo) # <<>>
              /\ DOMAIN regularDNSInfo # {})

\* The registrations of the existing objects whose namespace is configured.
LiveInScope == {t \in live : t[2] \in ConfiguredNamespaces}

\* C16: with every notification of the source handled, the two indices hold
\* exactly the registrations of the existing in-scope objects, each in the
\* index its name selects.
C16_IndexReflectsLiveObjects ==
    /\ Regs(wildcardDNSInfo) = {t \in LiveInScope : isWildcard(t[1])}
    /\ Regs(regularDNSInfo) = {t \in LiveInScope : ~isWildcard(t[1])}

\* The registration a notification carries.
Carried(ev) == <<ev.obj.dnsName, ev.obj.ns, ev.obj.name>>

\* C17: the indices start empty, and a step that puts a registration into an
\* index is a step of AddFunc handling a well-formed Add whose namespace is
\* configured, and the registration is the one that Add carries; so every
\* registration in an index was carried by an in-scope Add handled before.
C17_NoRegistrationWithoutAdd ==
    /\ Regs(regularDNSInfo) = {} /\ Regs(wildcardDNSInfo) = {}
    /\ DOMAIN regularDNSInfo = {} /\ DOMAIN wildcardDNSInfo = {}
    /\ [][ /\ (Regs(regularDNSInfo') \ Regs(regularDNSInfo) # {}
                  => (/\ pc = "addR" /\ cur.kind = "Add" /\ InScope(cur)
                      /\ Regs(regularDNSInfo') \ Regs(regularDNSInfo) = {Carried(cur)}))
           /\ (Regs(wildcardDNSInfo') \ Regs(wildcardDNSInfo) # {}
                  => (/\ pc = "addW" /\ cur.kind = "Add" /\ InScope(cur)
                      /\ Regs(wildcardDNSInfo') \ Regs(wildcardDNSInfo) = {Carried(cur)}))
         ]_vars

\* C17 witness: a well-formed Add from a namespace that is not configured has
\* been handled, and what it carries is in neither index although both hold
\* registrations.
C17_Witness ==
    /\ pc = "returned" /\ cur.kind = "Add" /\ cur.obj.ok
    /\ cur.obj.ns \notin ConfiguredNamespaces
    /\ Carried(cur) \notin Regs(regularDNSInfo) \cup Regs(wildcardDNSInfo)
    /\ Regs(regularDNSInfo) # {} /\ Regs(wildcardDNSInfo) # {}

\* C18: the two map locks are never held together; a handler holds exactly
\* the lock of the map it is working on while it is inside that map's
\* critical section, and holds none before it, at the observer call and once
\* it has returned, the return of a rejected Add included.
C18_LocksNeverNestedAlwaysReleased ==
    /\ ~(regularMapLock /\ wildcardMapLock)
    /\ pc \in {"idle", "send", "returned"} => (~regularMapLock /\ ~wildcardMapLock)
    /\ pc \in {"addW", "delW", "delW2"} => (wildcardMapLock /\ ~regularMapLock)
    /\ pc \in {"addR", "delR", "delR2"} => (regularMapLock /\ ~wildcardMapLock)

\* C18 witness: an Add for a regular name was rejected by the conflict check
\* and its handler has returned; no lock is held.
C18_Witness ==
    /\ pc = "returned" /\ cur.kind = "Add" /\ InScope(cur) /\ sent = 0
    /\ ~isWildcard(cur.obj.dnsName)
    /\ CurOwner(regularDNSInfo) # <<cur.obj.name>>
    /\ ~regularMapLock /\ ~wildcardMapLock

\* C19: in no step of onStart, of an onShut call or of a handler does the
\* shutdown flag go from true to false or stopCh from closed to open, and once
\* an onShut call has returned nil the flag is true and stopCh is closed.
C19_StoppedIsTerminal ==
    [][ /\ (shutdown => shutdown')
        /\ (stopCh = "closed" => stopCh' = "closed")
        /\ ((\E i \in 1..Len(shutResults) : shutResults[i] = "nil")
               => (shutdown /\ stopCh = "closed" /\ shutdown' /\ stopCh' = "closed"))
      ]_vars

\* C19 witness: an onShut call succeeded and a second one failed; onStart has
\* run to its deadline with the informer stopped, and a notification has been
\* handled; the flag is true and stopCh is closed.
C19_Witness ==
    /\ shutResults = <<"nil", "err">>
    /\ startPc = "returned" /\ ~hasSynced /\ returnedAt = Timeout
    /\ Regs(regularDNSInfo) # {}
    /\ shutdown /\ stopCh = "closed"

\* A notification carrying something that is not a *DNSNameResolver: the
\* object of an Add or a Delete, the old or the new object of an Update.
Malformed(ev) == ev.kind # "None" /\ (~ev.obj.ok \/ (ev.kind = "Update" /\ ~ev.newOk))

\* C20: a notification of any kind that carries something other than a
\* registration object is dropped when it is taken in: its handler has
\* returned, it changed no index, took no lock and did not reach the
\* observer call.
C20_MalformedDropped ==
    Malformed(cur) =>
        /\ pc = "returned"
        /\ sent = 0
        /\ ~mutated
        /\ ~regularMapLock /\ ~wildcardMapLock

====
